---------------------------- MODULE Spec2Model ----------------------------
(***************************************************************************)
(* Model of the symptom-to-disease dialogue handlers of Health-for-all:    *)
(*   src/ai_chatbot.py      chat()               stateful, per session     *)
(*   src/create_intents.py  handle_user_input()  stateless                 *)
(*   src/webhook.py         webhook()            stateless, intent driven  *)
(*                                                                         *)
(* The data sets (Dataset1/*.csv) are not part of the sources, so the      *)
(* catalog is a small table drawn at start-up from a family of tables.     *)
(* pandas semantics that the handlers rely on are modelled as pandas       *)
(* defines them:                                                           *)
(*   - groupby("Disease").agg(lambda x: x.dropna().tolist()) gives one row *)
(*     per disease, sorted by disease name, whose cells are LISTS, one per *)
(*     symptom column; the disease is the index, not a column;             *)
(*   - row[1:] is a positional slice: it drops the FIRST SYMPTOM COLUMN;   *)
(*   - `x in series` tests the LABELS of the series (Series.__contains__), *)
(*     not its values;                                                     *)
(*   - iterating a series yields its values, here lists, and a list cannot *)
(*     be added to a Python set (TypeError: unhashable type).              *)
(* Strings are sequences of one-character strings so that the substring    *)
(* tests of extract_symptoms are computed, not assumed.                    *)
(***************************************************************************)
EXTENDS Naturals, Sequences, FiniteSets

VARIABLES
    symptom_to_disease,   \* disease.csv as loaded at import (read-only afterwards)
    conversation_state,   \* ai_chatbot.conversation_state: session id -> {"symptoms": list}
    followup_turns,       \* history: per session, turns of chat() that took the `> 1` branch
    last,                 \* observation of the last turn: handler, inputs, outcome
    requests              \* per server thread: the request of chat() it is handling

vars == <<symptom_to_disease, conversation_state, followup_turns, last, requests>>

---------------------------------------------------------------------------
(* Bounds of the model *)

MaxStored == 3        \* symptoms kept in conversation_state, all sessions together
MaxText == 1          \* longest utterance, in characters
MaxParamText == 2     \* longest Dialogflow parameter value, in characters
MaxFollowups == 3     \* cap of the followup_turns history counter

Sessions == {"s1", "s2"}
Alphabet == {"a", "b", "c", "A", "x"}

---------------------------------------------------------------------------
(* Catalog data *)

NaN == "NaN"

\* Symptom-severity.csv: columns Symptom, Severity (1-7). `chars` spells the
\* name for the substring tests.
symptom_severity ==
    << [Symptom |-> "a",  Severity |-> 3, chars |-> <<"a">>],
       [Symptom |-> "b",  Severity |-> 6, chars |-> <<"b">>],
       [Symptom |-> "c",  Severity |-> 7, chars |-> <<"c">>] >>

SymptomNames == {symptom_severity[i].Symptom : i \in DOMAIN symptom_severity}

\* Disease names in ascending order (groupby sorts its keys).
DiseaseNames == <<"Flu", "Pox">>

\* Labels of the symptom columns of disease.csv, left to right.
ColumnLabels == <<"Symptom_1", "Symptom_2">>

\* disease.csv tables the program may be started with: rows of (Disease, symptom
\* cells), NaN where a disease has fewer symptoms.
CsvTwoDiseases ==
    << [Disease |-> "Pox", cells |-> <<"a", "c">>],
       [Disease |-> "Flu", cells |-> <<"a", "b">>],
       [Disease |-> "Flu", cells |-> <<"b", NaN>>] >>

CsvOneDisease ==
    << [Disease |-> "Flu", cells |-> <<"a", "b">>] >>

CsvOneColumn ==
    << [Disease |-> "Pox", cells |-> <<"c">>],
       [Disease |-> "Flu", cells |-> <<"a">>] >>

Catalogs == {CsvTwoDiseases, CsvOneDisease, CsvOneColumn}

\* symptom_Description.csv / symptom_precaution.csv: the diseases that have a row.
disease_description == {"Flu", "Pox"}

---------------------------------------------------------------------------
(* Strings *)

Lower(ch) == IF ch = "A" THEN "a" ELSE ch

LowerSeq(t) == [i \in DOMAIN t |-> Lower(t[i])]

\* Python `needle in hay` on strings.
Contains(hay, needle) ==
    \E i \in 0..(Len(hay) - Len(needle)) :
        SubSeq(hay, i + 1, i + Len(needle)) = needle

Texts == UNION {[1..n -> Alphabet] : n \in 0..MaxText}

ParamTexts == UNION {[1..n -> Alphabet] : n \in 0..MaxParamText}

RECURSIVE SeqToSet(_)
SeqToSet(s) == IF s = <<>> THEN {} ELSE {Head(s)} \cup SeqToSet(Tail(s))

---------------------------------------------------------------------------
(* grouped_symptoms *)

NCols(csv) == Len(csv[1].cells)

\* Index of the grouped frame: the diseases of the table, sorted by name.
GroupedIndex(csv) ==
    SelectSeq(DiseaseNames, LAMBDA d : \E i \in DOMAIN csv : csv[i].Disease = d)

\* One cell of the grouped frame: x.dropna().tolist() over the disease's rows.
GroupedCell(csv, d, j) ==
    LET rows == SelectSeq(csv, LAMBDA r : r.Disease = d /\ r.cells[j] # NaN)
    IN  [i \in DOMAIN rows |-> rows[i].cells[j]]

\* A row of the grouped frame is a Series: labels (column names) and values (lists).
GroupedRow(csv, d) ==
    [labels |-> SubSeq(ColumnLabels, 1, NCols(csv)),
     values |-> [j \in 1..NCols(csv) |-> GroupedCell(csv, d, j)]]

\* series[1:]
SliceFrom1(series) ==
    [labels |-> Tail(series.labels), values |-> Tail(series.values)]

\* `key in series`: membership in the labels of the series.
SeriesContains(series, key) ==
    \E i \in DOMAIN series.labels : series.labels[i] = key

---------------------------------------------------------------------------
(* Functions of ai_chatbot.py *)

extract_symptoms(user_input) ==
    LET hits == SelectSeq(symptom_severity,
                          LAMBDA r : Contains(LowerSeq(user_input), LowerSeq(r.chars)))
    IN  [i \in DOMAIN hits |-> hits[i].Symptom]

\* Variant: membership in the values of the sliced row instead of its labels.
identify_diseases_by_values(csv, symptoms) ==
    SelectSeq(GroupedIndex(csv),
              LAMBDA d : \A i \in DOMAIN symptoms :
                  \E j \in DOMAIN SliceFrom1(GroupedRow(csv, d)).values :
                      symptoms[i] \in SeqToSet(SliceFrom1(GroupedRow(csv, d)).values[j]))

identify_diseases(csv, symptoms) ==
    SelectSeq(GroupedIndex(csv),
              LAMBDA d : \A i \in DOMAIN symptoms :
                             SeriesContains(SliceFrom1(GroupedRow(csv, d)), symptoms[i]))

\* next_symptoms.update(disease_symptoms) adds the VALUES of the sliced row, which
\* are lists: the first one raises TypeError. With no column left after the slice
\* nothing is added and the result is the empty list.
ask_next_symptom(csv, possible_diseases) ==
    LET updated == {d \in SeqToSet(possible_diseases) :
                       SliceFrom1(GroupedRow(csv, d)).values # <<>>}
    IN  IF updated # {}
        THEN [raised |-> TRUE,  next_symptoms |-> {}]
        ELSE [raised |-> FALSE, next_symptoms |-> {}]

\* .values[0] of an empty selection raises IndexError.
get_disease_info(disease) ==
    [raised |-> disease \notin disease_description, disease |-> disease]

\* Variant: threshold `severity >= 6` instead of `severity == 7`.
RECURSIVE check_emergency_threshold(_)
check_emergency_threshold(symptoms) ==
    IF symptoms = <<>> THEN [raised |-> FALSE, value |-> FALSE]
    ELSE LET rows == SelectSeq(symptom_severity, LAMBDA r : r.Symptom = Head(symptoms))
         IN  IF rows = <<>> THEN [raised |-> TRUE, value |-> FALSE]
             ELSE IF rows[1].Severity >= 6 THEN [raised |-> FALSE, value |-> TRUE]
             ELSE check_emergency_threshold(Tail(symptoms))

\* severity of the first row of the table with that Symptom; IndexError if none.
RECURSIVE check_emergency(_)
check_emergency(symptoms) ==
    IF symptoms = <<>> THEN [raised |-> FALSE, value |-> FALSE]
    ELSE LET rows == SelectSeq(symptom_severity, LAMBDA r : r.Symptom = Head(symptoms))
         IN  IF rows = <<>> THEN [raised |-> TRUE, value |-> FALSE]
             ELSE IF rows[1].Severity = 7 THEN [raised |-> FALSE, value |-> TRUE]
             ELSE check_emergency(Tail(symptoms))

---------------------------------------------------------------------------
(* Observation of a turn *)

NoTurn ==
    [handler |-> "none", sid |-> "none", intent |-> "none", detected |-> <<>>,
     before |-> <<>>, symptoms |-> <<>>, possible |-> <<>>, response |-> "NONE",
     next_symptoms |-> {}]

\* The branch on len(possible_diseases) that the three handlers share. The
\* emergency sentence is added to the diagnosis, and only in the branch of exactly
\* one candidate. "EXCEPTION" stands for an exception raised by a callee.
Decide(csv, symptoms) ==
    LET possible == identify_diseases(csv, symptoms)
    IN  IF Len(possible) > 1
        THEN LET ask == ask_next_symptom(csv, possible)
             IN  [possible |-> possible,
                  response |-> IF ask.raised THEN "EXCEPTION" ELSE "FOLLOWUP",
                  next_symptoms |-> ask.next_symptoms]
        ELSE IF Len(possible) = 1
        THEN LET info == get_disease_info(possible[1])
                 emergency == check_emergency(symptoms)
             IN  [possible |-> possible,
                  response |-> IF info.raised \/ emergency.raised THEN "EXCEPTION"
                               ELSE IF emergency.value THEN "DIAGNOSIS_EMERGENCY"
                               ELSE "DIAGNOSIS",
                  next_symptoms |-> {}]
        ELSE [possible |-> possible, response |-> "REFERRAL", next_symptoms |-> {}]

---------------------------------------------------------------------------
(* chat() of ai_chatbot.py *)

\* Variant: one list shared by every session instead of one list per session id.
SymptomsOfSharedState(sid) ==
    IF DOMAIN conversation_state = {} THEN <<>>
    ELSE conversation_state[CHOOSE s \in DOMAIN conversation_state : TRUE].symptoms

\* conversation_state[session_id]["symptoms"], [] for a session id never seen
SymptomsOf(sid) ==
    IF sid \in DOMAIN conversation_state THEN conversation_state[sid].symptoms ELSE <<>>

RECURSIVE SumLen(_)
SumLen(S) ==
    IF S = {} THEN 0
    ELSE LET s == CHOOSE x \in S : TRUE IN Len(SymptomsOf(s)) + SumLen(S \ {s})

\* Number of symptoms held in memory.
Stored == SumLen(DOMAIN conversation_state)

\* Variant: the list is overwritten by the symptoms of the current utterance.
ExtendOverwrites(old, detected_symptoms) == detected_symptoms

\* Variant: set semantics, a symptom already in the list is not appended again.
ExtendDistinct(old, detected_symptoms) ==
    old \o SelectSeq(detected_symptoms, LAMBDA x : x \notin SeqToSet(old))

\* Variant: the report that follows a diagnosis or a referral starts a fresh list.
ExtendNewRound(old, detected_symptoms) ==
    IF last.response \in {"DIAGNOSIS", "DIAGNOSIS_EMERGENCY", "REFERRAL"}
    THEN detected_symptoms
    ELSE old \o detected_symptoms

\* conversation_state[session_id]["symptoms"].extend(detected_symptoms)
Extend(old, detected_symptoms) == old \o detected_symptoms

\* Variant: the candidates are computed from the current utterance alone.
ChatQueryUtteranceOnly(accumulated, detected_symptoms) == detected_symptoms

\* The list handed to identify_diseases by chat(): the session's whole list.
ChatQuery(accumulated, detected_symptoms) == accumulated

\* The threads of the server (app.run serves each request in a thread of its own).
Threads == {"t1", "t2"}

NoRequest ==
    [pc |-> "idle", sid |-> "none", detected |-> <<>>, possible |-> <<>>,
     response |-> "NONE"]

\* An exception of chat() is not caught: Flask answers HTTP 500 with no "response",
\* and the list was already extended.
chat(sid, user_input) ==
    \E detected \in {extract_symptoms(user_input)} :
    \E symptoms \in {Extend(SymptomsOf(sid), detected)} :
    \E d \in {Decide(symptom_to_disease, ChatQuery(symptoms, detected))} :
        /\ Stored - Len(SymptomsOf(sid)) + Len(symptoms) <= MaxStored
        /\ Len(d.possible) > 1 => followup_turns[sid] < MaxFollowups
        /\ conversation_state' =
               [s \in DOMAIN conversation_state \cup {sid} |->
                   IF s = sid THEN [symptoms |-> symptoms] ELSE conversation_state[s]]
        /\ followup_turns' =
               [followup_turns EXCEPT ![sid] = IF Len(d.possible) > 1 THEN @ + 1 ELSE @]
        /\ last' = [handler |-> "chat", sid |-> sid, intent |-> "none",
                    detected |-> detected, before |-> SymptomsOf(sid),
                    symptoms |-> symptoms, possible |-> d.possible,
                    response |-> IF d.response = "EXCEPTION" THEN "HTTP_500" ELSE d.response,
                    next_symptoms |-> d.next_symptoms]
        /\ UNCHANGED <<symptom_to_disease, requests>>

---------------------------------------------------------------------------
(* handle_user_input() of create_intents.py: stateless, session_id is unused and *)
(* not part of the observation                                                  *)

handle_user_input(user_input, sid) ==
    \E symptoms \in {extract_symptoms(user_input)} :
    \E d \in {IF symptoms = <<>>
               THEN [possible |-> <<>>, response |-> "PROMPT", next_symptoms |-> {}]
               ELSE Decide(symptom_to_disease, symptoms)} :
        /\ last' = [handler |-> "handle_user_input", sid |-> "none", intent |-> "none",
                    detected |-> symptoms, before |-> <<>>,
                    symptoms |-> symptoms, possible |-> d.possible,
                    response |-> d.response, next_symptoms |-> d.next_symptoms]
        /\ UNCHANGED <<symptom_to_disease, conversation_state, followup_turns, requests>>

---------------------------------------------------------------------------
(* webhook() of webhook.py: stateless; the intent and the parameters come from  *)
(* Dialogflow. Responses are modelled by their kind: translate_text changes the *)
(* wording of a response, not which response it is, and returns its argument    *)
(* for 'en' and on failure.                                                     *)

\* SYMPTOM_SYNONYMS: canonical name -> synonyms. As 'fever' in the source, the
\* canonical name need not be a row of Symptom-severity.csv.
SYMPTOM_SYNONYMS ==
    << [canonical |-> "bb", chars |-> <<"b", "b">>, synonyms |-> << <<"a", "a">> >>] >>

Intents ==
    {"General Symptoms", "Multiple Symptoms", "Follow-up Symptoms", "No More Symptoms",
     "Emergency"}

\* Names of Dialogflow parameters; "symptom" in param.lower() holds of the first.
ParamNames == {"symptom", "date"}
NameHasSymptom(param) == param = "symptom"

\* normalize_symptom: a list of one name or the empty list for None. The alphabet
\* has no white space, so strip() changes nothing.
normalize_symptom(symptom_text) ==
    LET text == LowerSeq(symptom_text)
        rows == SelectSeq(symptom_severity, LAMBDA r : LowerSeq(r.chars) = text)
        syns == SelectSeq(SYMPTOM_SYNONYMS,
                          LAMBDA e : (\E k \in DOMAIN e.synonyms : e.synonyms[k] = text)
                                     \/ text = e.chars)
    IN  IF rows # <<>> THEN {rows[1].Symptom}
        ELSE IF syns # <<>> THEN {syns[1].canonical}
        ELSE {}

\* extract_symptoms of webhook.py, as the set it builds before list(set(...)).
webhook_extract_symptoms(text) ==
    SeqToSet(extract_symptoms(text))
    \cup {SYMPTOM_SYNONYMS[e].canonical : e \in
             {e \in DOMAIN SYMPTOM_SYNONYMS :
                 \E k \in DOMAIN SYMPTOM_SYNONYMS[e].synonyms :
                     Contains(LowerSeq(text), SYMPTOM_SYNONYMS[e].synonyms[k])}}

\* The symptoms of one parameter: a list value is normalised item by item (empty
\* items skipped), a string value is searched for symptom names.
ParamSymptoms(p) ==
    IF ~NameHasSymptom(p.name) THEN {}
    ELSE IF p.kind = "list"
         THEN UNION {normalize_symptom(p.items[i]) :
                        i \in {k \in DOMAIN p.items : p.items[k] # <<>>}}
         ELSE webhook_extract_symptoms(p.text)

\* list(set(...)): the set in any order.
Orderings(S) ==
    {q \in [1..Cardinality(S) -> S] : \A i, j \in DOMAIN q : i # j => q[i] # q[j]}

\* One parameter of the request: a string, or a list of one string.
Parameters ==
    [name : ParamNames, kind : {"str"}, text : ParamTexts, items : {<<>>}]
    \cup [name : {"symptom"}, kind : {"list"}, text : {<<>>},
          items : {<<t>> : t \in ParamTexts}]

\* Any exception inside the handler (a failing Dialogflow call, or one raised by
\* the functions above) ends in the `except` clause and its error message.
webhook(sid, intent_name, p, dialogflow_fails) ==
    \E symptoms \in IF dialogflow_fails THEN {<<>>} ELSE Orderings(ParamSymptoms(p)) :
    \E d \in {IF dialogflow_fails
               THEN [possible |-> <<>>, response |-> "EXCEPTION", next_symptoms |-> {}]
               ELSE IF intent_name \in {"General Symptoms", "Multiple Symptoms"}
               THEN IF symptoms = <<>>
                    THEN [possible |-> <<>>, response |-> "PROMPT", next_symptoms |-> {}]
                    ELSE Decide(symptom_to_disease, symptoms)
               ELSE IF intent_name \in {"Follow-up Symptoms", "No More Symptoms"}
               THEN [possible |-> <<>>, response |-> "EMPTY", next_symptoms |-> {}]
               ELSE [possible |-> <<>>, response |-> "NOT_UNDERSTOOD",
                     next_symptoms |-> {}]} :
        /\ last' = [handler |-> "webhook", sid |-> "none", intent |-> intent_name,
                    detected |-> symptoms, before |-> <<>>,
                    symptoms |-> symptoms, possible |-> d.possible,
                    response |-> IF d.response = "EXCEPTION" THEN "ERROR_MESSAGE"
                                 ELSE d.response,
                    next_symptoms |-> d.next_symptoms]
        /\ UNCHANGED <<symptom_to_disease, conversation_state, followup_turns, requests>>

---------------------------------------------------------------------------

Init ==
    /\ symptom_to_disease \in Catalogs
    /\ conversation_state = << >>
    /\ followup_turns = [s \in Sessions |-> 0]
    /\ last = NoTurn
    /\ requests = [t \in Threads |-> NoRequest]

ChatTurn == \E sid \in Sessions, user_input \in Texts : chat(sid, user_input)

HandleUserInputTurn ==
    \E sid \in Sessions, user_input \in Texts : handle_user_input(user_input, sid)

WebhookTurn ==
    \E sid \in Sessions, intent_name \in Intents, p \in Parameters,
       dialogflow_fails \in BOOLEAN :
        webhook(sid, intent_name, p, dialogflow_fails)

\* ai_chatbot.py, create_intents.py and webhook.py are three programs, each with
\* its own copy of the catalog; only ai_chatbot.py keeps state between turns.
Next == ChatTurn

Spec == Init /\ [][Next]_vars

StatelessNext == HandleUserInputTurn \/ WebhookTurn

StatelessSpec == Init /\ [][StatelessNext]_vars

---------------------------------------------------------------------------
(* chat() of ai_chatbot.py statement by statement, one request per thread. *)
(* The handler takes no lock; the threads interleave between statements.   *)

\* lines 104-110: read the request, extract the symptoms of the message
ReceiveRequest(t, sid, user_input) ==
    /\ requests[t].pc = "idle"
    /\ requests' = [requests EXCEPT ![t] =
                       [NoRequest EXCEPT !.pc = "check", !.sid = sid,
                                         !.detected = extract_symptoms(user_input)]]
    /\ UNCHANGED <<symptom_to_disease, conversation_state, followup_turns, last>>

\* line 113: if session_id not in conversation_state
CheckSession(t) ==
    /\ requests[t].pc = "check"
    /\ requests' = [requests EXCEPT ![t].pc =
                       IF requests[t].sid \notin DOMAIN conversation_state
                       THEN "create" ELSE "extend"]
    /\ UNCHANGED <<symptom_to_disease, conversation_state, followup_turns, last>>

\* line 114: conversation_state[session_id] = {"symptoms": []}
CreateSession(t) ==
    /\ requests[t].pc = "create"
    /\ conversation_state' =
           [s \in DOMAIN conversation_state \cup {requests[t].sid} |->
               IF s = requests[t].sid THEN [symptoms |-> <<>>] ELSE conversation_state[s]]
    /\ requests' = [requests EXCEPT ![t].pc = "extend"]
    /\ UNCHANGED <<symptom_to_disease, followup_turns, last>>

\* line 115: conversation_state[session_id]["symptoms"].extend(detected_symptoms)
ExtendSymptoms(t) ==
    /\ requests[t].pc = "extend"
    /\ Stored + Len(requests[t].detected) <= MaxStored
    /\ conversation_state' =
           [conversation_state EXCEPT ![requests[t].sid] =
               [symptoms |-> Extend(SymptomsOf(requests[t].sid), requests[t].detected)]]
    /\ requests' = [requests EXCEPT ![t].pc = "identify"]
    /\ UNCHANGED <<symptom_to_disease, followup_turns, last>>

\* lines 118-134: the candidates of the session's list, and the response
Respond(t) ==
    /\ requests[t].pc = "identify"
    /\ \E d \in {Decide(symptom_to_disease,
                        ChatQuery(SymptomsOf(requests[t].sid), requests[t].detected))} :
           requests' = [requests EXCEPT ![t] =
               [@ EXCEPT !.pc = "done", !.possible = d.possible,
                         !.response = IF d.response = "EXCEPTION" THEN "HTTP_500"
                                      ELSE d.response]]
    /\ UNCHANGED <<symptom_to_disease, conversation_state, followup_turns, last>>

ReceiveRequestStep ==
    \E t \in Threads, sid \in Sessions, user_input \in Texts :
        ReceiveRequest(t, sid, user_input)

CheckSessionStep == \E t \in Threads : CheckSession(t)

CreateSessionStep == \E t \in Threads : CreateSession(t)

ExtendSymptomsStep == \E t \in Threads : ExtendSymptoms(t)

RespondStep == \E t \in Threads : Respond(t)

ConcurrentNext ==
    \/ ReceiveRequestStep
    \/ CheckSessionStep
    \/ CreateSessionStep
    \/ ExtendSymptomsStep
    \/ RespondStep

ConcurrentSpec == Init /\ [][ConcurrentNext]_vars

---------------------------------------------------------------------------
(* Vocabulary of the claims *)

\* The dialogue state a response stands for. No handler answers with the
\* emergency advisory alone.
StateOf(response) ==
    CASE response = "FOLLOWUP" -> "AWAITING_FOLLOWUP"
      [] response \in {"DIAGNOSIS", "DIAGNOSIS_EMERGENCY"} -> "RESOLVED"
      [] response = "REFERRAL" -> "UNRESOLVED"
      [] response \in {"PROMPT", "NOT_UNDERSTOOD"} -> "COLLECTING"
      [] response = "EMERGENCY_ADVISORY" -> "EMERGENCY"
      [] OTHER -> "NONE"

SeverityOf(symptom) ==
    LET rows == SelectSeq(symptom_severity, LAMBDA r : r.Symptom = symptom)
    IN  rows[1].Severity

\* Every symptom of a disease, over all symptom columns of its rows.
DiseaseSymptoms(csv, d) ==
    {csv[i].cells[j] : i \in {k \in DOMAIN csv : csv[k].Disease = d},
                       j \in 1..NCols(csv)} \ {NaN}

CatalogSymptoms(csv) == UNION {DiseaseSymptoms(csv, csv[i].Disease) : i \in DOMAIN csv}

Overlap(csv, d, X) == Cardinality(DiseaseSymptoms(csv, d) \cap X)

\* Position of a disease name in the ascending order of names.
NameRank(d) == CHOOSE i \in DOMAIN DiseaseNames : DiseaseNames[i] = d

NameAscending(ds) == \A i, j \in DOMAIN ds : i < j => NameRank(ds[i]) < NameRank(ds[j])

\* score(d1) >= score(d2), scores being |X \cap S_d| / |S_d|.
ScoreAtLeast(csv, X, d1, d2) ==
    Overlap(csv, d1, X) * Cardinality(DiseaseSymptoms(csv, d2))
        >= Overlap(csv, d2, X) * Cardinality(DiseaseSymptoms(csv, d1))

ChatTurnDone == last.handler = "chat"

---------------------------------------------------------------------------
(* C1: whenever the emergency check is true on the session's confirmed     *)
(* symptoms, the turn ends in state EMERGENCY with the emergency advisory  *)
(* alone, whatever the number of candidates. Violated by chat().           *)
C1_EmergencyPriority ==
    (ChatTurnDone /\ check_emergency(last.symptoms).value)
        => StateOf(last.response) = "EMERGENCY"

C4_EmptyInputNoCandidate ==
    (ChatTurnDone /\ last.symptoms = <<>>) => last.possible = <<>>

(* C5: for symptom lists X and Y with X a subset of Y, Y has at most as    *)
(* many candidates as X, for every catalog the program starts with (the    *)
(* catalog never changes); and no turn of chat() increases the number of   *)
(* candidates of a session.                                                *)
QueryLists == UNION {[1..n -> SymptomNames \cup {"Symptom_2"}] : n \in 0..MaxStored}

C5_Monotone ==
    /\ \A X, Y \in QueryLists :
            SeqToSet(X) \subseteq SeqToSet(Y) =>
                Len(identify_diseases(symptom_to_disease, Y))
                    <= Len(identify_diseases(symptom_to_disease, X))
    /\ [][\A s \in DOMAIN conversation_state :
            Len(identify_diseases(symptom_to_disease, conversation_state'[s].symptoms))
                <= Len(identify_diseases(symptom_to_disease, conversation_state[s].symptoms))
         ]_vars

C5_Witness ==
    /\ ChatTurnDone
    /\ followup_turns[last.sid] > 0
    /\ last.detected # <<>>
    /\ last.possible = <<>>

(* C6, as claimed: the emergency check is true whenever a confirmed        *)
(* symptom has severity 6 or 7, and false when all are below 6.            *)
C6_ThresholdSix ==
    ChatTurnDone =>
        (check_emergency(last.symptoms).value
            <=> \E i \in DOMAIN last.symptoms : SeverityOf(last.symptoms[i]) >= 6)

(* C6, amended: the emergency check is true exactly when a confirmed       *)
(* symptom has severity 7; a symptom of severity 6 does not trigger it.    *)
C6_SeveritySevenOnly ==
    ChatTurnDone =>
        /\ ~check_emergency(last.symptoms).raised
        /\ check_emergency(last.symptoms).value
              <=> \E i \in DOMAIN last.symptoms : SeverityOf(last.symptoms[i]) = 7

C6_Witness ==
    /\ ChatTurnDone
    /\ \E i \in DOMAIN last.symptoms : SeverityOf(last.symptoms[i]) = 6
    /\ ~check_emergency(last.symptoms).value

(* C7, as claimed: each symptom occurs at most once in a session's         *)
(* accumulated collection.                                                 *)
C7_NoDuplicates ==
    \A s \in DOMAIN conversation_state :
        \A i, j \in DOMAIN conversation_state[s].symptoms :
            i # j => conversation_state[s].symptoms[i] # conversation_state[s].symptoms[j]

(* C7, amended: a turn appends every detected symptom, duplicates          *)
(* included; the list grows by the number of symptoms detected, and the    *)
(* set of distinct symptoms is unchanged when all of them were confirmed   *)
(* before.                                                                 *)
C7_AppendKeepsDuplicates ==
    ChatTurnDone =>
        LET now == conversation_state[last.sid].symptoms
        IN  /\ Len(now) = Len(last.before) + Len(last.detected)
            /\ SeqToSet(now) = SeqToSet(last.before) \cup SeqToSet(last.detected)
            /\ SeqToSet(last.detected) \subseteq SeqToSet(last.before)
                  => SeqToSet(now) = SeqToSet(last.before)

C7_Witness ==
    /\ ChatTurnDone
    /\ last.detected # <<>>
    /\ SeqToSet(last.detected) \subseteq SeqToSet(last.before)
    /\ Len(conversation_state[last.sid].symptoms) > Len(last.before)

(* C8: a turn of chat() never removes a confirmed symptom of any session,  *)
(* and its candidates are those of the session's accumulated list, not of  *)
(* the current utterance alone.                                            *)
C8_AccumulateNeverRetract ==
    /\ [][\A s \in DOMAIN conversation_state :
            /\ s \in DOMAIN conversation_state'
            /\ SeqToSet(conversation_state[s].symptoms)
                  \subseteq SeqToSet(conversation_state'[s].symptoms)]_vars
    /\ [](ChatTurnDone =>
            last.possible = identify_diseases(symptom_to_disease,
                                              conversation_state[last.sid].symptoms))

C8_Witness ==
    /\ ChatTurnDone
    /\ last.before # <<>>
    /\ last.detected = <<>>
    /\ last.possible = <<>>
    /\ identify_diseases(symptom_to_disease, last.detected) # <<>>

(* C9: a "no further symptoms" signal always yields RESOLVED or UNRESOLVED *)
(* in the same turn. Violated by webhook(): the branch is empty.           *)
C9_NoMoreSymptomsResolves ==
    (last.handler = "webhook" /\ last.intent = "No More Symptoms"
        /\ last.response # "ERROR_MESSAGE")
        => StateOf(last.response) \in {"RESOLVED", "UNRESOLVED"}

(* C10: within a round the follow-up branch is taken at most as many times *)
(* as there are distinct symptoms across the diseases. Violated by chat(): *)
(* nothing records what was asked, and every turn without a new symptom    *)
(* takes the branch again.                                                 *)
C10_FollowupBounded ==
    \A s \in Sessions :
        followup_turns[s] <= Cardinality(CatalogSymptoms(symptom_to_disease))

(* C11: every turn returns a non-empty response text, for every intent and *)
(* on every internal failure. Violated by webhook(): the branches of the   *)
(* follow-up and of the no-more-symptoms intents leave the text empty.     *)
C11_ResponseNeverEmpty ==
    last.handler = "webhook" => last.response # "EMPTY"

(* C12: when the accumulated symptom list is empty after extraction, the   *)
(* turn answers with the "describe your symptoms" prompt and produces no   *)
(* follow-up question, diagnosis or referral. Violated by chat(), which    *)
(* has no test for the empty list.                                         *)
C12_EmptyListPrompts ==
    (ChatTurnDone /\ last.symptoms = <<>>)
        => /\ last.response = "PROMPT"
           /\ StateOf(last.response) = "COLLECTING"

(* C13: two concurrent turns of chat() on one session leave the list that  *)
(* running them one after the other, in one of the two orders, would       *)
(* leave, and each turn computes its candidates from a list that contains  *)
(* the symptoms it merged. Violated by chat(): the test for a new session  *)
(* and the creation of its list are two statements with no lock, so a      *)
(* second request can replace the list the first one already extended.     *)
C13_TurnsSerialized ==
    /\ \A t \in Threads :
           requests[t].pc = "identify" =>
               SeqToSet(requests[t].detected)
                   \subseteq SeqToSet(conversation_state[requests[t].sid].symptoms)
    /\ \A t, u \in Threads :
           (t # u /\ requests[t].pc = "done" /\ requests[u].pc = "done"
                /\ requests[t].sid = requests[u].sid)
               => conversation_state[requests[t].sid].symptoms
                      \in {requests[t].detected \o requests[u].detected,
                           requests[u].detected \o requests[t].detected}

C16_CandidatesContainAllSymptoms ==
    ChatTurnDone =>
        SeqToSet(last.possible) =
            {d \in SeqToSet(GroupedIndex(symptom_to_disease)) :
                SeqToSet(last.symptoms) \subseteq DiseaseSymptoms(symptom_to_disease, d)}

(* C15, as claimed: after a diagnosis or a referral the next report of the *)
(* same session starts from a fresh list, and its candidates are those of  *)
(* the newly reported symptoms alone.                                      *)
RoundFinished ==
    ChatTurnDone /\ StateOf(last.response) \in {"RESOLVED", "UNRESOLVED"}

C15_FreshRoundAfterTerminal ==
    [][(RoundFinished /\ last'.handler = "chat" /\ last'.sid = last.sid)
          => /\ last'.symptoms = last'.detected
             /\ last'.possible = identify_diseases(symptom_to_disease, last'.detected)]_vars

(* C15, as the code behaves: after a diagnosis or a referral the next      *)
(* report of the same session continues the same list; the symptoms of the *)
(* finished round stay in it, and the candidates are computed from all of  *)
(* them.                                                                   *)
C15_ListSurvivesTerminal ==
    [][(RoundFinished /\ last'.handler = "chat" /\ last'.sid = last.sid)
          => /\ last'.before = last.symptoms
             /\ last'.symptoms = last.symptoms \o last'.detected
             /\ conversation_state'[last'.sid].symptoms = last'.symptoms
             /\ last'.possible = identify_diseases(symptom_to_disease, last'.symptoms)]_vars

C15_Witness ==
    /\ ChatTurnDone
    /\ symptom_to_disease = CsvOneDisease
    /\ last.before # <<>>
    /\ last.detected = <<>>
    /\ last.response = "REFERRAL"
    /\ identify_diseases(symptom_to_disease, last.detected) = <<"Flu">>

(* C17: a turn of chat() for a session creates the state of that session   *)
(* if it was never seen, changes the state of no other session, and its    *)
(* list, candidates and response are those decided from the session's own  *)
(* list and the reported symptoms alone.                                   *)
C17_SessionIsolation ==
    [][last'.handler = "chat" =>
          \E sid \in {last'.sid} :
          \E own \in {IF sid \in DOMAIN conversation_state
                      THEN conversation_state[sid].symptoms ELSE <<>>} :
          \E d \in {Decide(symptom_to_disease, own \o last'.detected)} :
              /\ DOMAIN conversation_state' = DOMAIN conversation_state \cup {sid}
              /\ \A other \in DOMAIN conversation_state \ {sid} :
                     conversation_state'[other] = conversation_state[other]
              /\ conversation_state'[sid].symptoms = own \o last'.detected
              /\ last'.possible = d.possible
              /\ last'.next_symptoms = d.next_symptoms
              /\ last'.response =
                     IF d.response = "EXCEPTION" THEN "HTTP_500" ELSE d.response]_vars

C17_Witness ==
    /\ ChatTurnDone
    /\ last.before = <<>>
    /\ last.detected # <<>>
    /\ DOMAIN conversation_state = Sessions
    /\ \E other \in Sessions \ {last.sid} :
           /\ conversation_state[other].symptoms # <<>>
           /\ conversation_state[other].symptoms # conversation_state[last.sid].symptoms

(* C18: in chat() "no matching disease" is absorbing: once the list of a   *)
(* session matches no disease it never matches one again, and every later  *)
(* turn of that session answers with the referral.                         *)
C18_ReferralAbsorbing ==
    [][\A s \in DOMAIN conversation_state :
          identify_diseases(symptom_to_disease, conversation_state[s].symptoms) = <<>>
              => /\ identify_diseases(symptom_to_disease,
                                      conversation_state'[s].symptoms) = <<>>
                 /\ (last'.handler = "chat" /\ last'.sid = s)
                        => last'.response = "REFERRAL"]_vars

C18_Witness ==
    /\ ChatTurnDone
    /\ last.before # <<>>
    /\ identify_diseases(symptom_to_disease, last.before) = <<>>
    /\ last.detected # <<>>
    /\ last.response = "REFERRAL"

=============================================================================
